---- MODULE Spec2Model ----
(***************************************************************************)
(* Model of prepare_datasets.py: three dataset pipelines (NAB, Yahoo S5,   *)
(* KDD'99) run in sequence by main().  CSV files are sequences of lines,   *)
(* a line is a sequence of cell texts.  A DataFrame carries its column     *)
(* names, the dtype pandas infers for each column, and its rows; a cell of *)
(* a DataFrame is kept as the text to_csv writes for it.                   *)
(***************************************************************************)
EXTENDS Integers, Sequences, FiniteSets, TLC

\* ---------------------------------------------------------------- bounds
MaxRows == 2     \* data rows of an input file
MaxDirs == 4     \* directories of the NAB tree
Runs == 2        \* invocations of main()

\* ------------------------------------------------------------ cell texts
NaN == ""
IntTexts == {"0", "1", "2", "5", "9"}
FloatTexts == {"0.0", "1.0", "2.0", "5.0", "9.0"}

\* an integer read into a float64 column is written back with ".0"
AsFloat(t) ==
  CASE t = "0" -> "0.0"
    [] t = "1" -> "1.0"
    [] t = "2" -> "2.0"
    [] t = "5" -> "5.0"
    [] t = "9" -> "9.0"
    [] OTHER -> t

Range(s) == {s[i] : i \in DOMAIN s}

\* ------------------------------------------------------------ DataFrames
Column(lines, j) == {lines[i][j] : i \in DOMAIN lines}

\* the dtype read_csv infers for a column from its cell texts
InferDtype(cells) ==
  IF cells = {} THEN "object"
  ELSE IF cells \subseteq IntTexts THEN "int64"
  ELSE IF cells \subseteq (IntTexts \cup FloatTexts \cup {NaN}) THEN "float64"
  ELSE "object"

Cast(t, dtype) == IF dtype = "float64" THEN AsFloat(t) ELSE t

EmptyFrame == [columns |-> <<>>, dtypes |-> <<>>, data |-> <<>>]

\* pd.read_csv(path) when names = <<>> (first line is the header), and
\* pd.read_csv(path, header=None, names=names) otherwise.  An empty file
\* raises EmptyDataError when no names are given; with names it is read as
\* a frame of the named columns without rows.
read_csv(lines, names) ==
  IF lines = <<>> /\ names = <<>> THEN [raised |-> TRUE, df |-> EmptyFrame]
  ELSE LET cols == IF names = <<>> THEN lines[1] ELSE names
           body == IF names = <<>> THEN Tail(lines) ELSE lines
           dts == [j \in DOMAIN cols |-> InferDtype(Column(body, j))]
       IN [raised |-> FALSE,
           df |-> [columns |-> cols,
                   dtypes |-> dts,
                   data |-> [i \in DOMAIN body |->
                               [j \in DOMAIN cols |-> Cast(body[i][j], dts[j])]]]]

\* the renaming lost (rename without inplace=True)
rename_noop(df, old, new) == df

\* df.rename(columns={old: new}, inplace=True)
rename(df, old, new) ==
  [df EXCEPT !.columns = [j \in DOMAIN df.columns |->
                            IF df.columns[j] = old THEN new ELSE df.columns[j]]]

NoFile == [exists |-> FALSE, lines |-> <<>>]

\* the file opened for appending instead of being replaced
to_csv_append(df, existing) ==
  [exists |-> TRUE, lines |-> existing.lines \o <<df.columns>> \o df.data]

\* the row index written as a first, unnamed column (index=False left out)
to_csv_index(df, existing) ==
  [exists |-> TRUE,
   lines |-> << <<"">> \o df.columns >>
             \o [i \in DOMAIN df.data |-> <<ToString(i - 1)>> \o df.data[i]]]

\* df.to_csv(output_file, index=False): header line, one line per row,
\* replacing whatever the file held
to_csv(df, existing) ==
  [exists |-> TRUE, lines |-> <<df.columns>> \o df.data]

\* ------------------------------------------------------------- pd.concat
RECURSIVE UnionColumns(_, _)
\* column names of the frames in order of first appearance
UnionColumns(dfs, acc) ==
  IF dfs = <<>> THEN acc
  ELSE LET new == SelectSeq(Head(dfs).columns, LAMBDA c : c \notin Range(acc))
       IN UnionColumns(Tail(dfs), acc \o new)

HasColumn(df, c) == c \in Range(df.columns)
ColIndex(df, c) == CHOOSE j \in DOMAIN df.columns : df.columns[j] = c
DtypeOf(df, c) == df.dtypes[ColIndex(df, c)]

\* the dtype of column c in the concatenation: the common dtype of the
\* frames that hold the column, those without rows left aside (all of
\* them when none has rows); a frame that lacks the column, with or
\* without rows, stands in with an all-NaN placeholder, which makes an
\* int64 result float64
ConcatDtype(dfs, c) ==
  LET live == {i \in DOMAIN dfs : dfs[i].data # <<>>}
      D == {DtypeOf(dfs[i], c) : i \in {k \in live : HasColumn(dfs[k], c)}}
      missing == \E i \in DOMAIN dfs : ~HasColumn(dfs[i], c)
  IN IF "object" \in D \/ D = {} THEN "object"
     ELSE IF "float64" \in D \/ missing THEN "float64"
     ELSE "int64"

Reindex(df, cols, dts) ==
  [i \in DOMAIN df.data |->
     [j \in DOMAIN cols |->
        IF HasColumn(df, cols[j])
        THEN Cast(df.data[i][ColIndex(df, cols[j])], dts[j])
        ELSE NaN]]

RECURSIVE ConcatRows(_, _, _)
ConcatRows(dfs, cols, dts) ==
  IF dfs = <<>> THEN <<>>
  ELSE Reindex(Head(dfs), cols, dts) \o ConcatRows(Tail(dfs), cols, dts)

\* pd.concat(dfs, ignore_index=True)
concat(dfs) ==
  LET cols == UnionColumns(dfs, <<>>)
      dts == [j \in DOMAIN cols |-> ConcatDtype(dfs, cols[j])]
  IN [columns |-> cols, dtypes |-> dts, data |-> ConcatRows(dfs, cols, dts)]

\* ------------------------------------------------------------ log lines
Info(dataset, event) == [level |-> "INFO", dataset |-> dataset, event |-> event]
Error(dataset, event) == [level |-> "ERROR", dataset |-> dataset, event |-> event]

\* what a pipeline call leaves behind: the output file, the lines it
\* logged, and whether an exception left the function
Outcome(file, lines, exc) == [out |-> file, log |-> lines, raised |-> exc]

\* ------------------------------------------------------------------- NAB
\* The NAB tree has directories 1..n, 1 is input_dir, parent[i] < i is the
\* directory holding i, and a directory lists its subdirectories in index
\* order.  file[i] is Twitter_volume_AMZN.csv in directory i, if any.
RECURSIVE Walk(_, _), WalkChildren(_, _, _)
\* os.walk(input_dir): top-down, a directory before its subdirectories
Walk(tree, node) == <<node>> \o WalkChildren(tree, node, node + 1)
WalkChildren(tree, node, k) ==
  IF k > tree.n THEN <<>>
  ELSE (IF tree.parent[k] = node THEN Walk(tree, k) ELSE <<>>)
       \o WalkChildren(tree, node, k + 1)

\* the loop of lines 44-48: the first directory of the walk that holds
\* the file, 0 when none does (target_file stays None)
FindTarget(tree) ==
  LET hits == SelectSeq(Walk(tree, 1), LAMBDA d : tree.file[d].exists)
  IN IF hits = <<>> THEN 0 ELSE Head(hits)

\* lines 44-57: locate the file, rename, write
NabLocateAndWrite(input_dir, existing, start) ==
  LET target == FindTarget(input_dir)
  IN IF target = 0
     THEN Outcome(existing, start \o <<Error("nab", "NoFilesFound")>>, FALSE)
     ELSE LET r == read_csv(input_dir.file[target].lines, <<>>)
              df == IF HasColumn(r.df, "label")
                    THEN rename(r.df, "label", "is_anomaly")
                    ELSE r.df
          IN IF r.raised
             THEN Outcome(existing, start, TRUE)
             ELSE Outcome(to_csv(df, existing),
                          start \o <<Info("nab", "Success")>>, FALSE)

\* the check of lines 40-42 left out: os.walk of a missing directory
\* yields nothing
process_nab_folder_unchecked(input_dir, existing) ==
  NabLocateAndWrite(input_dir, existing, <<Info("nab", "Processing")>>)

process_nab_folder(input_dir, existing) ==
  LET start == <<Info("nab", "Processing")>>
  IN IF ~input_dir.exists
     THEN Outcome(existing, start \o <<Error("nab", "SourceMissing")>>, FALSE)
     ELSE NabLocateAndWrite(input_dir, existing, start)

\* ----------------------------------------------------------------- Yahoo
\* the names the pattern real_*.csv matches, among the names of the model
MatchesReal(name) == name \in {"real_1.csv", "real_2.csv"}

\* the matches sorted by name instead of kept in listing order
glob_sorted(entries) ==
  SelectSeq(entries, LAMBDA e : e.name = "real_1.csv")
  \o SelectSeq(entries, LAMBDA e : e.name = "real_2.csv")

\* glob.glob(os.path.join(folder, "real_*.csv")): the matching entries of
\* the folder, in the order the directory lists them
glob(entries) == SelectSeq(entries, LAMBDA e : MatchesReal(e.name))

\* the root searched as well when A1Benchmark holds no match
BenchmarkFolder_fallback(input_dir) ==
  IF input_dir.a1.isdir /\ SelectSeq(input_dir.a1.entries, LAMBDA e : MatchesReal(e.name)) # <<>>
  THEN input_dir.a1.entries
  ELSE input_dir.entries

\* lines 66-68
BenchmarkFolder(input_dir) ==
  IF input_dir.a1.isdir THEN input_dir.a1.entries ELSE input_dir.entries

process_yahoo_folder(input_dir, existing) ==
  LET start == <<Info("yahoo", "Processing")>>
  IN IF ~input_dir.exists
     THEN Outcome(existing, start \o <<Error("yahoo", "SourceMissing")>>, FALSE)
     ELSE LET file_paths == glob(BenchmarkFolder(input_dir))
          IN IF file_paths = <<>>
             THEN Outcome(existing, start \o <<Error("yahoo", "NoFilesFound")>>, FALSE)
             ELSE LET reads == [i \in DOMAIN file_paths |->
                                  read_csv(file_paths[i].lines, <<>>)]
                      combined == concat([i \in DOMAIN reads |-> reads[i].df])
                      df == IF HasColumn(combined, "anomaly")
                            THEN rename(combined, "anomaly", "is_anomaly")
                            ELSE combined
                  IN IF \E i \in DOMAIN reads : reads[i].raised
                     THEN Outcome(existing, start, TRUE)
                     ELSE Outcome(to_csv(df, existing),
                                  start \o <<Info("yahoo", "Success")>>, FALSE)

\* ------------------------------------------------------------------- KDD
column_names ==
  << "duration", "protocol_type", "service", "flag", "src_bytes", "dst_bytes", "land",
     "wrong_fragment", "urgent", "hot", "num_failed_logins", "logged_in", "num_compromised",
     "root_shell", "su_attempted", "num_root", "num_file_creations", "num_shells",
     "num_access_files", "num_outbound_cmds", "is_host_login", "is_guest_login", "count",
     "srv_count", "serror_rate", "srv_serror_rate", "rerror_rate", "srv_rerror_rate",
     "same_srv_rate", "diff_srv_rate", "srv_diff_host_rate", "dst_host_count",
     "dst_host_srv_count", "dst_host_same_srv_rate", "dst_host_diff_srv_rate",
     "dst_host_same_src_port_rate", "dst_host_srv_diff_host_rate", "dst_host_serror_rate",
     "dst_host_srv_serror_rate", "dst_host_rerror_rate", "dst_host_srv_rerror_rate", "label" >>

\* the label compared without its trailing period as well
LabelToAnomaly_loose(x) == IF x \in {"normal.", "normal"} THEN "0" ELSE "1"

\* lambda x: 0 if x == 'normal.' else 1
LabelToAnomaly(x) == IF x = "normal." THEN "0" ELSE "1"

\* df['is_anomaly'] = df['label'].apply(...): a new column at the end,
\* int64 when there are rows; apply on no rows keeps the object dtype
AddIsAnomaly(df) ==
  LET l == ColIndex(df, "label")
  IN [columns |-> Append(df.columns, "is_anomaly"),
      dtypes |-> Append(df.dtypes, IF df.data = <<>> THEN "object" ELSE "int64"),
      data |-> [i \in DOMAIN df.data |->
                  Append(df.data[i], LabelToAnomaly(df.data[i][l]))]]

\* every column kept, whatever its dtype
select_dtypes_all(df) == df.columns

\* df.select_dtypes(include=np.number).columns.tolist()
select_dtypes_number(df) ==
  LET idx == SelectSeq([j \in DOMAIN df.columns |-> j],
                       LAMBDA j : df.dtypes[j] \in {"int64", "float64"})
  IN [k \in DOMAIN idx |-> df.columns[idx[k]]]

\* df[names] for a frame whose column names are distinct
SelectColumns(df, names) ==
  [columns |-> names,
   dtypes |-> [k \in DOMAIN names |-> DtypeOf(df, names[k])],
   data |-> [i \in DOMAIN df.data |->
               [k \in DOMAIN names |-> df.data[i][ColIndex(df, names[k])]]]]

process_kdd_folder(input_dir, existing) ==
  LET start == <<Info("kdd", "Processing")>>
  IN IF ~input_dir.exists
     THEN Outcome(existing, start \o <<Error("kdd", "SourceMissing")>>, FALSE)
     ELSE IF ~input_dir.target.exists
     THEN Outcome(existing, start \o <<Error("kdd", "NoFilesFound")>>, FALSE)
     ELSE LET r == read_csv(input_dir.target.lines, column_names)
              df == AddIsAnomaly(r.df)
              numeric_cols == select_dtypes_number(df)
              df_final == SelectColumns(df, numeric_cols \o <<"is_anomaly">>)
          IN IF r.raised
             THEN Outcome(existing, start, TRUE)
             ELSE Outcome(to_csv(df_final, existing),
                          start \o <<Info("kdd", "Success")>>, FALSE)

\* ---------------------------------------------------------------- inputs
\* Input files are CSV texts whose header names are distinct and whose
\* lines all have as many cells as the header.
CellChoices(col) ==
  CASE col = "timestamp" -> {"t1", "t2"}
    [] col = "value" -> {"5"}
    [] col = "label" -> {"0", "1", "2", NaN}
    [] col = "anomaly" -> {"1", "2"}
    [] col = "is_anomaly" -> {"0", "9"}
    [] col = "protocol_type" -> {"tcp", "1"}
    [] col = "raw_label" -> {"normal.", "normal", "smurf.", "0"}
    [] OTHER -> {"0"}

AllTexts ==
  {"t1", "t2", "tcp", "http", "SF", "normal.", "normal", "smurf.", NaN} \cup IntTexts

\* the rows a file with the given column kinds can hold
RowsOver(kinds) ==
  {r \in [DOMAIN kinds -> AllTexts] : \A j \in DOMAIN kinds : r[j] \in CellChoices(kinds[j])}

SeqsUpTo(S, n) == UNION {[1..k -> S] : k \in 0..n}

EmptyFileLines == <<>>
File(lines) == [exists |-> TRUE, lines |-> lines]

\* a file with a header line and up to MaxRows data rows
TablesOver(header) == {<<header>> \o rows : rows \in SeqsUpTo(RowsOver(header), MaxRows)}

NabHeaders ==
  {<<"timestamp", "value", "label">>, <<"timestamp", "value">>, <<"label", "is_anomaly">>}
NabFiles == {EmptyFileLines} \cup UNION {TablesOver(h) : h \in NabHeaders}

\* the table of the concrete scenario of the specification
NabExample == << <<"timestamp", "value", "label">>, <<"t1", "5", "0">>, <<"t2", "5", "1">> >>
NabOther == << <<"timestamp", "value">>, <<"t2", "5">> >>

NabMissing == [exists |-> FALSE, n |-> 1, parent |-> <<0>>, file |-> <<NoFile>>]
NabSingle(lines) == [exists |-> TRUE, n |-> 1, parent |-> <<0>>, file |-> <<File(lines)>>]
NabNoTarget == [exists |-> TRUE, n |-> 1, parent |-> <<0>>, file |-> <<NoFile>>]

\* directory trees of up to MaxDirs directories, the file in any of them
NabTrees ==
  UNION {
    {[exists |-> TRUE, n |-> n, parent |-> par, file |-> f] :
       par \in {q \in [1..n -> 0..(n - 1)] : \A i \in 1..n : q[i] < i /\ (q[i] = 0 <=> i = 1)},
       f \in [1..n -> {NoFile, File(NabExample), File(NabOther)}]}
    : n \in 1..MaxDirs}

NabSmall == {NabMissing, NabNoTarget, NabSingle(NabExample), NabSingle(EmptyFileLines)}
NabRich == NabSmall \cup NabTrees \cup {NabSingle(l) : l \in NabFiles}

YahooHeaders == {<<"value", "anomaly">>, <<"value">>}
YahooFiles == {EmptyFileLines} \cup UNION {TablesOver(h) : h \in YahooHeaders}
YahooExample == << <<"value", "anomaly">>, <<"5", "0">>, <<"5", "1">> >>
YahooNames == {"real_1.csv", "real_2.csv", "notes.txt"}

Entry(name, lines) == [name |-> name, lines |-> lines]
\* the orders in which a directory can list some of the names
NameOrders ==
  {s \in SeqsUpTo(YahooNames, Cardinality(YahooNames)) :
     \A i, j \in DOMAIN s : i # j => s[i] # s[j]}
\* directory listings: entries with distinct names, in any order; what a
\* file that is not a real_*.csv holds does not matter
Listings ==
  UNION {
    {[i \in DOMAIN s |->
        Entry(s[i], IF MatchesReal(s[i]) THEN c[s[i]] ELSE EmptyFileLines)] :
       c \in [{nm \in Range(s) : MatchesReal(nm)} -> YahooFiles]}
    : s \in NameOrders}
SmallListings == {<<>>, <<Entry("real_1.csv", YahooExample)>>}

NoA1 == [isdir |-> FALSE, entries |-> <<>>]
A1(entries) == [isdir |-> TRUE, entries |-> entries]
YahooDir(entries, a1) == [exists |-> TRUE, entries |-> entries, a1 |-> a1]
YahooMissing == [exists |-> FALSE, entries |-> <<>>, a1 |-> NoA1]

YahooSmall ==
  {YahooMissing, YahooDir(<<>>, NoA1),
   YahooDir(<<>>, A1(<<Entry("real_1.csv", YahooExample)>>)),
   YahooDir(<<Entry("real_1.csv", YahooExample)>>, A1(<<Entry("real_2.csv", EmptyFileLines)>>))}
YahooRich ==
  YahooSmall \cup {YahooDir(l, NoA1) : l \in Listings}
             \cup {YahooDir(r, A1(l)) : r \in SmallListings, l \in Listings}

\* a KDD line: 42 fields, of which the protocol and the raw label vary
KddRow(proto, lab) ==
  [j \in DOMAIN column_names |->
     CASE column_names[j] = "protocol_type" -> proto
       [] column_names[j] = "service" -> "http"
       [] column_names[j] = "flag" -> "SF"
       [] column_names[j] = "label" -> lab
       [] OTHER -> "0"]
KddRows == {KddRow(p, l) : p \in CellChoices("protocol_type"), l \in CellChoices("raw_label")}
KddFiles == SeqsUpTo(KddRows, MaxRows)
KddExample == <<KddRow("tcp", "normal.")>>

KddMissing == [exists |-> FALSE, target |-> NoFile]
KddDir(target) == [exists |-> TRUE, target |-> target]
KddSmall == {KddMissing, KddDir(NoFile), KddDir(File(KddExample)), KddDir(File(EmptyFileLines))}
KddRich == KddSmall \cup {KddDir(File(l)) : l \in KddFiles}

\* the file systems the model starts from: every combination of the small
\* inputs, and every rich input of one dataset beside good inputs of the
\* other two
FileSystems ==
  [nab : NabSmall, yahoo : YahooSmall, kdd : KddSmall]
  \cup [nab : NabRich,
        yahoo : {YahooDir(<<>>, A1(<<Entry("real_1.csv", YahooExample)>>))},
        kdd : {KddDir(File(KddExample))}]
  \cup [nab : {NabSingle(NabExample)}, yahoo : YahooRich, kdd : {KddDir(File(KddExample))}]
  \cup [nab : {NabSingle(NabExample)},
        yahoo : {YahooDir(<<>>, A1(<<Entry("real_1.csv", YahooExample)>>))},
        kdd : KddRich]

\* ----------------------------------------------------------------- state
Pipelines == {"nab", "yahoo", "kdd"}
OldFile == File(<< <<"old">> >>)

VARIABLES
  fs,      \* the source_data folders: fs.nab, fs.yahoo, fs.kdd (never written)
  destDir, \* whether the datasets folder exists
  out,     \* the three output files
  out0,    \* the output files as they were when this run of main() began
  log,     \* the lines logged by this run
  pc,      \* where main() is: start, nab, yahoo, kdd, finish, done, crashed
  run      \* which invocation of main() this is

vars == <<fs, destDir, out, out0, log, pc, run>>

Init ==
  /\ fs \in FileSystems
  /\ \E old \in {NoFile, OldFile} :
       /\ out = [p \in Pipelines |-> old]
       /\ destDir = old.exists
  /\ out0 = out
  /\ log = <<>>
  /\ pc = "start"
  /\ run = 1

\* lines 120-123
MainStart ==
  /\ pc = "start"
  /\ log' = Append(log, Info("main", "Starting"))
  /\ destDir' = TRUE
  /\ pc' = "nab"
  /\ UNCHANGED <<fs, out, out0, run>>

\* one call of a pipeline from main(): an exception leaving the call ends
\* the process
Call(p, r, next) ==
  /\ out' = [out EXCEPT ![p] = r.out]
  /\ log' = log \o r.log
  /\ pc' = IF r.raised THEN "crashed" ELSE next
  /\ UNCHANGED <<fs, destDir, out0, run>>

\* line 126
ProcessNab ==
  /\ pc = "nab"
  /\ Call("nab", process_nab_folder(fs.nab, out["nab"]), "yahoo")

\* line 127
ProcessYahoo ==
  /\ pc = "yahoo"
  /\ Call("yahoo", process_yahoo_folder(fs.yahoo, out["yahoo"]), "kdd")

\* line 128
ProcessKdd ==
  /\ pc = "kdd"
  /\ Call("kdd", process_kdd_folder(fs.kdd, out["kdd"]), "finish")

\* lines 130-132
MainFinish ==
  /\ pc = "finish"
  /\ log' = Append(log, Info("main", "AllProcessed"))
  /\ pc' = "done"
  /\ UNCHANGED <<fs, destDir, out, out0, run>>

\* the script is run again on the same inputs
RunAgain ==
  /\ pc \in {"done", "crashed"}
  /\ run < Runs
  /\ run' = run + 1
  /\ out0' = out
  /\ log' = <<>>
  /\ pc' = "start"
  /\ UNCHANGED <<fs, destDir, out>>

Next ==
  \/ MainStart
  \/ ProcessNab
  \/ ProcessYahoo
  \/ ProcessKdd
  \/ MainFinish
  \/ RunAgain

Spec == Init /\ [][Next]_vars

TypeOK ==
  /\ pc \in {"start", "nab", "yahoo", "kdd", "finish", "done", "crashed"}
  /\ run \in 1..Runs
  /\ \A p \in Pipelines : out[p].exists \in BOOLEAN

\* ------------------------------------------------- vocabulary of the claims
Ran(p) == \E i \in DOMAIN log : log[i] = Info(p, "Processing")
Wrote(p) == \E i \in DOMAIN log : log[i] = Info(p, "Success")
Reports(p, event) == {i \in DOMAIN log : log[i] = Error(p, event)}
\* the pipeline an uncaught exception came out of logged the last line
CrashedIn(p) == pc = "crashed" /\ log # <<>> /\ log[Len(log)].dataset = p

Header(file) == file.lines[1]
Rows(file) == Tail(file.lines)
Positions(header, name) == {j \in DOMAIN header : header[j] = name}
Binary(t) == t \in {"0", "1", "0.0", "1.0"}
\* two cell texts denote the same value
SameValue(a, b) == AsFloat(a) = AsFloat(b)
\* the cells of the columns named name in a CSV text with a header line
CellsOf(lines, name) ==
  {lines[i][j] : i \in (DOMAIN lines) \ {1}, j \in Positions(lines[1], name)}

\* the file the NAB pipeline read, and the files the Yahoo pipeline merged
NabInput == fs.nab.file[FindTarget(fs.nab)].lines
YahooSearched == IF fs.yahoo.a1.isdir THEN fs.yahoo.a1.entries ELSE fs.yahoo.entries
YahooMatched == SelectSeq(YahooSearched, LAMBDA e : e.name \in {"real_1.csv", "real_2.csv"})
KddInput == fs.kdd.target.lines

\* C1 (as stated): every table a pipeline writes has a column is_anomaly,
\* and every value of that column is 0 or 1.
C1_IsAnomalyAlwaysBinary ==
  \A p \in Pipelines :
    Wrote(p) =>
      /\ Positions(Header(out[p]), "is_anomaly") # {}
      /\ \A t \in CellsOf(out[p].lines, "is_anomaly") : Binary(t)

\* C1 (amended): the KDD output always has a column is_anomaly holding only
\* 0 and 1.  The NAB (Yahoo) output has a column is_anomaly exactly when
\* the input has a column named label (anomaly) or is_anomaly, and its
\* values are 0 or 1 whenever the values of those input columns are (for
\* Yahoo: and the merged files all have the same header).
C1_IsAnomalyBinaryWhenSourceIs ==
  /\ Wrote("kdd") =>
       /\ Positions(Header(out["kdd"]), "is_anomaly") # {}
       /\ \A t \in CellsOf(out["kdd"].lines, "is_anomaly") : Binary(t)
  /\ Wrote("nab") =>
       /\ Positions(Header(out["nab"]), "is_anomaly") # {}
            <=> (Positions(NabInput[1], "label") \cup Positions(NabInput[1], "is_anomaly")) # {}
       /\ (\A t \in CellsOf(NabInput, "label") \cup CellsOf(NabInput, "is_anomaly") : Binary(t))
            => \A t \in CellsOf(out["nab"].lines, "is_anomaly") : Binary(t)
  /\ Wrote("yahoo") =>
       /\ Positions(Header(out["yahoo"]), "is_anomaly") # {}
            <=> \E k \in DOMAIN YahooMatched :
                  (Positions(YahooMatched[k].lines[1], "anomaly")
                     \cup Positions(YahooMatched[k].lines[1], "is_anomaly")) # {}
       /\ (\A k \in DOMAIN YahooMatched :
             /\ YahooMatched[k].lines[1] = YahooMatched[1].lines[1]
             /\ \A t \in CellsOf(YahooMatched[k].lines, "anomaly")
                       \cup CellsOf(YahooMatched[k].lines, "is_anomaly") : Binary(t))
            => \A t \in CellsOf(out["yahoo"].lines, "is_anomaly") : Binary(t)

\* all three outputs written, the NAB and Yahoo ones from labelled rows
C1_Witness ==
  /\ \A p \in Pipelines : Wrote(p)
  /\ CellsOf(NabInput, "label") = {"0", "1"}
  /\ CellsOf(out["nab"].lines, "is_anomaly") = {"0", "1"}
  /\ CellsOf(out["yahoo"].lines, "is_anomaly") = {"0", "1"}

\* C2 (as stated, for the network-intrusion output the claim singles out):
\* the written table has exactly one column named is_anomaly and every row
\* has as many cells as the header.
C2_KddSingleIsAnomalyColumn ==
  Wrote("kdd") =>
    /\ Cardinality(Positions(Header(out["kdd"]), "is_anomaly")) = 1
    /\ \A i \in DOMAIN out["kdd"].lines :
         Len(out["kdd"].lines[i]) = Len(Header(out["kdd"]))

\* C3: in the KDD output, row i has is_anomaly 0 exactly when the 42nd
\* field of input line i is "normal." and 1 otherwise; the output has one
\* row per input line, in the input's order.
C3_KddLabelDerivation ==
  Wrote("kdd") =>
    LET o == out["kdd"].lines
    IN /\ Len(o) = Len(KddInput) + 1
       /\ Positions(o[1], "is_anomaly") # {}
       /\ \A i \in DOMAIN KddInput :
            /\ \A j \in Positions(o[1], "is_anomaly") :
                 /\ o[i + 1][j] = "0" <=> KddInput[i][42] = "normal."
                 /\ o[i + 1][j] = "1" <=> KddInput[i][42] # "normal."
            /\ \A j \in DOMAIN o[1] : \A c \in DOMAIN column_names :
                 o[1][j] = column_names[c] => SameValue(o[i + 1][j], KddInput[i][c])

\* a file holding both "normal." and the near-match "normal" was processed
C3_Witness ==
  /\ Wrote("kdd")
  /\ Len(KddInput) = 2
  /\ KddInput[1][42] = "normal"
  /\ KddInput[2][42] = "normal."
  /\ \E j \in Positions(Header(out["kdd"]), "is_anomaly") :
       out["kdd"].lines[2][j] = "1" /\ out["kdd"].lines[3][j] = "0"

Categorical == {"protocol_type", "service", "flag", "label"}
\* C4 (as stated): none of protocol_type, service, flag, label is in the
\* header of the KDD output, whatever the input fields hold.
C4_NoCategoricalColumn ==
  Wrote("kdd") => Range(Header(out["kdd"])) \cap Categorical = {}

\* C4 (amended): a column among protocol_type, service, flag, label is not
\* in the header of the KDD output when some input line holds a text in
\* that field that is neither a number nor empty.
C4_NoTextualCategoricalColumn ==
  Wrote("kdd") =>
    \A c \in DOMAIN column_names :
      (/\ column_names[c] \in Categorical
       /\ \E i \in DOMAIN KddInput : KddInput[i][c] \notin IntTexts \cup FloatTexts \cup {NaN})
      => column_names[c] \notin Range(Header(out["kdd"]))

\* a file whose protocol field is textual in one line and numeric in another
C4_Witness ==
  /\ Wrote("kdd")
  /\ Len(KddInput) = 2
  /\ KddInput[1][2] = "1"
  /\ KddInput[2][2] = "tcp"
  /\ "protocol_type" \notin Range(Header(out["kdd"]))
  /\ "duration" \in Range(Header(out["kdd"]))

RECURSIVE RowsBefore(_, _)
\* the number of data rows of the first k files
RowsBefore(files, k) ==
  IF k = 0 THEN 0 ELSE RowsBefore(files, k - 1) + Len(files[k].lines) - 1

OutName(c) == IF c = "anomaly" THEN "is_anomaly" ELSE c
\* C5: the Yahoo output holds the rows of the matched files, file after
\* file in the order the directory lists them and row after row in each
\* file's order; its row count is the sum of the files' row counts.
C5_YahooConcatenation ==
  Wrote("yahoo") =>
    LET o == out["yahoo"].lines
        m == YahooMatched
    IN /\ Len(o) - 1 = RowsBefore(m, Len(m))
       /\ \A k \in DOMAIN m : \A i \in 1..(Len(m[k].lines) - 1) :
            LET orow == o[1 + RowsBefore(m, k - 1) + i]
                irow == m[k].lines[i + 1]
                ihdr == m[k].lines[1]
            IN \A j \in DOMAIN o[1] :
                 IF \E c \in DOMAIN ihdr : OutName(ihdr[c]) = o[1][j]
                 THEN \A c \in DOMAIN ihdr :
                        OutName(ihdr[c]) = o[1][j] => SameValue(orow[j], irow[c])
                 ELSE orow[j] = NaN

\* two files with the same rows, listed real_2.csv before real_1.csv
C5_Witness ==
  /\ Wrote("yahoo")
  /\ Len(YahooMatched) = 2
  /\ YahooMatched[1].name = "real_2.csv"
  /\ YahooMatched[2].name = "real_1.csv"
  /\ YahooMatched[1].lines = YahooMatched[2].lines
  /\ Len(YahooMatched[1].lines) = 3
  /\ Len(out["yahoo"].lines) = 5

\* the expected file of a pipeline whose root exists is not there
NotFound(p) ==
  CASE p = "nab" -> \A d \in 1..fs.nab.n : ~fs.nab.file[d].exists
    [] p = "yahoo" -> YahooMatched = <<>>
    [] p = "kdd" -> ~fs.kdd.target.exists

\* the pipeline's input is in place and every file it reads holds a table
Readable(p) ==
  /\ fs[p].exists
  /\ ~NotFound(p)
  /\ CASE p = "nab" -> NabInput # <<>>
       [] p = "yahoo" -> \A k \in DOMAIN YahooMatched : YahooMatched[k].lines # <<>>
       [] p = "kdd" -> TRUE

\* every pipeline was called and main() reached its last line
AllRan == \A q \in Pipelines : Ran(q)

\* C6: a pipeline whose input root does not exist reports SourceMissing
\* once, leaves its output file as it was, and does not stop main(): when
\* the inputs of the other two pipelines are readable the run is never
\* aborted, and once done every pipeline has been called and those with
\* readable inputs have written their outputs.
C6_MissingSource ==
  \A p \in Pipelines :
    ~fs[p].exists =>
      /\ out[p] = out0[p]
      /\ ~Wrote(p)
      /\ Ran(p) => Cardinality(Reports(p, "SourceMissing")) = 1
      /\ ~CrashedIn(p)
      /\ pc = "done" => AllRan /\ \A q \in Pipelines : Readable(q) => Wrote(q)
      /\ (\A q \in Pipelines \ {p} : Readable(q)) => pc # "crashed"

\* a run completed with one root missing, the other two outputs written and
\* the old output of the missing dataset still in place
C6_Witness ==
  \E p \in Pipelines :
    /\ pc = "done"
    /\ ~fs[p].exists
    /\ Reports(p, "SourceMissing") # {}
    /\ out[p] = OldFile
    /\ \A q \in Pipelines \ {p} : Wrote(q)

\* C7 (as stated): no failure in a pipeline, an unparseable raw file
\* included, aborts the run: it is reported, the output is not written and
\* main() goes on to the later pipelines and its final step.
C7_NoFailureAbortsRun ==
  /\ pc # "crashed"
  /\ \A p \in Pipelines :
       (Ran(p) /\ ~Wrote(p)) =>
          Reports(p, "SourceMissing") \cup Reports(p, "NoFilesFound") \cup Reports(p, "Failed") # {}

\* C8: a second run of main() on the same inputs leaves every output file
\* with the content the first run left.
C8_SecondRunIdentical ==
  (run > 1 /\ pc \in {"done", "crashed"}) => out = out0

\* the second run completed and wrote all three outputs again
C8_Witness ==
  /\ run = 2
  /\ pc = "done"
  /\ \A p \in Pipelines : Wrote(p) /\ Len(out[p].lines) > 1

\* C9: the NAB output has the input's columns in the input's order, the
\* header label renamed to is_anomaly and no other header changed, and the
\* input's rows with the same values in the same order.
C9_NabRenameOnly ==
  Wrote("nab") =>
    LET o == out["nab"].lines
    IN /\ Len(o) = Len(NabInput)
       /\ \A i \in DOMAIN o : Len(o[i]) = Len(NabInput[i])
       /\ \A j \in DOMAIN o[1] :
            o[1][j] = IF NabInput[1][j] = "label" THEN "is_anomaly" ELSE NabInput[1][j]
       /\ \A i \in (DOMAIN o) \ {1} : \A j \in DOMAIN o[i] : SameValue(o[i][j], NabInput[i][j])

\* the concrete scenario: columns timestamp, value, label and two rows
C9_Witness ==
  /\ Wrote("nab")
  /\ NabInput = NabExample
  /\ out["nab"].lines =
       << <<"timestamp", "value", "is_anomaly">>, <<"t1", "5", "0">>, <<"t2", "5", "1">> >>

\* C10: a pipeline whose root exists reports NoFilesFound exactly when the
\* expected file is not found; it then leaves its output as it was and
\* main() goes on to the later pipelines.
C10_NoFilesFound ==
  \A p \in Pipelines :
    (fs[p].exists /\ Ran(p)) =>
      /\ Reports(p, "NoFilesFound") # {} <=> NotFound(p)
      /\ NotFound(p) =>
           /\ Cardinality(Reports(p, "NoFilesFound")) = 1
           /\ out[p] = out0[p]
           /\ ~Wrote(p)
           /\ ~CrashedIn(p)
           /\ pc = "done" => AllRan

\* the A1Benchmark folder exists without any real_*.csv while the root
\* holds one: nothing is merged, and the KDD pipeline still ran
C10_Witness ==
  /\ pc = "done"
  /\ fs.yahoo.a1.isdir
  /\ \E i \in DOMAIN fs.yahoo.entries : fs.yahoo.entries[i].name = "real_1.csv"
  /\ Reports("yahoo", "NoFilesFound") # {}
  /\ out["yahoo"] = OldFile
  /\ Wrote("kdd")

====
